---- MODULE Spec2Model ----
(***************************************************************************)
(* Streaming transcription pipeline of the speech transcription platform:  *)
(*   transcription.py  TranscriptionService.transcribe_file,               *)
(*                     recognize_from_stream, recognize_continuous         *)
(*   websocket.py      ConnectionManager, websocket_continuous_recognition,*)
(*                     websocket_single_recognition                        *)
(* One session is modelled; its mode is fixed in Init.  The asyncio event  *)
(* loop is cooperative: every action below is the code a task runs between *)
(* two suspension points (await), or one callback of the engine's thread.  *)
(***************************************************************************)
EXTENDS Integers, Sequences, FiniteSets, TLC

\* ------------------------------------------------------------------ bounds
\* Engine events delivered to one transcribe_file call.
MaxEvents == 3
\* Recognized and Canceled events delivered to one streaming session.
MaxStreamEvents == 2
\* Chunks a pipe of the transcoder holds (stdin, stdout): a writer waits
\* while the pipe is full.
PipeCapacity == 1
\* Clock ticks in one second: the resolution of loop.time() in the model.
TicksPerSecond == 2

\* ------------------------------------------------------- program constants
\* timeout_duration of websocket_single_recognition (seconds).
TimeoutDuration == 10
\* The cap of one receive wait in websocket_single_recognition (seconds).
ReceiveCap == 1
\* Both in clock ticks.
Budget == TimeoutDuration * TicksPerSecond
CapTicks == ReceiveCap * TicksPerSecond
\* The latest clock reading told apart: later readings behave alike.
MaxElapsed == Budget + CapTicks

\* ------------------------------------------------------------------ values
\* Python's None for a string-valued field.
None == "None"
\* Python's None for a text (texts are sequences of characters).
NoneText == <<"None">>
\* The language the engine reports when it could not determine one.
Undetermined == ""
\* AutoDetectSourceLanguageResult(evt.result) raising.
LangRaises == "<raises>"
Langs == {Undetermined, "es", "en"}
Texts == {<<"a">>, <<"b">>}
\* client_id of the session.
Self == "self"
\* client_id of another session served by the same process.
Other == "other"

VARIABLES
    mode,              \* "file" | "continuous" | "once"
    pc,                \* position of the session task (the handler)
    \* --- connection
    registry,          \* manager.active_connections (its keys)
    clientConnected,   \* the peer is still there: send_json reaches it
    wsClosed,          \* websocket.close() was called by the handler
    sent,              \* messages that reached the client, in order
    \* --- recognition engine and push stream
    stream,            \* "none" | "open" | "closed"
    lateWrite,         \* a stream.write happened after stream.close
    recognizer,        \* the handler's `recognizer` variable is set
    eng,               \* "idle" | "running" | "canceled" | "stopping" | "stopped"
    events,            \* engine events delivered so far (history)
    pending,           \* coroutines queued by run_coroutine_threadsafe
    \* --- transcoder process
    ffmpeg,            \* "none" | "running" | "dead" | "reaped"
    crashed,           \* the process died mid-stream: in the handler's receive loop
    stdinOpen,
    inBuf,             \* frames written to stdin, not yet transcoded
    outBuf,            \* PCM chunks in the stdout pipe, not yet read
    pcmWritten,        \* a PCM chunk was written to the push stream
    stdoutTask,        \* "none" | "running" | "done" | "failed"
    stderrTask,        \* "none" | "running" | "done"
    \* --- teardown
    exc,               \* the exception on its way to the handler's except clause
    log,               \* teardown steps performed, in order
    \* --- transcribe_file
    all_results, detected_language, error_message, done, result,
    \* --- websocket_single_recognition
    elapsed,           \* loop.time() - start_time at the last reading (ticks)
    waitCap,           \* timeout of the last wait_for(receive_bytes()) (ticks)
    gotFrame           \* receive_bytes() has returned a frame

connVars == <<registry, clientConnected, wsClosed, sent>>
engVars  == <<recognizer, eng, events, pending>>
procVars == <<ffmpeg, crashed, stdinOpen, inBuf, outBuf, pcmWritten, stdoutTask, stderrTask>>
fileVars == <<all_results, detected_language, error_message, done, result>>
onceVars == <<elapsed, waitCap, gotFrame>>
vars == <<mode, pc, exc, connVars, stream, lateWrite, engVars, procVars, log, fileVars, onceVars>>

\* ----------------------------------------------------------------- helpers
RECURSIVE StrJoinNoSep(_, _)
StrJoinNoSep(sep, list) ==
    IF list = <<>> THEN <<>> ELSE Head(list) \o StrJoinNoSep(sep, Tail(list))

\* Python's sep.join(list) on strings.
RECURSIVE StrJoin(_, _)
StrJoin(sep, list) ==
    IF list = <<>> THEN <<>>
    ELSE IF Len(list) = 1 THEN Head(list)
    ELSE Head(list) \o sep \o StrJoin(sep, Tail(list))

\* Python's truthiness of an Optional[str]: `not s`.
Falsy(s) == s = None \/ s = ""

\* `x or "unknown"`.
OrUnknown(s) == IF Falsy(s) THEN "unknown" ELSE s

Min(a, b) == IF a <= b THEN a ELSE b

\* --------------------------------------------------------- transcribe_file
\* evt.result of a Recognized event: a fragment with the language the engine
\* reports for it, or a NoMatch result, which carries neither.
RecognizedEvents ==
    [type : {"Recognized"}, reason : {"RecognizedSpeech"},
     text : Texts, lang : Langs \cup {LangRaises}]
    \cup {[type |-> "Recognized", reason |-> "NoMatch", text |-> <<>>, lang |-> Undetermined]}

NoResult == [status |-> "pending", language |-> None, text |-> NoneText, error |-> None]

\* recognized_handler's language capture: `if not detected_language: ...`.
ResolveLanguage(detected, lang) ==
    IF Falsy(detected)
    THEN (IF lang = LangRaises THEN "unknown" ELSE lang)
    ELSE detected

FileResultSpeechFirst(err, results, lang) ==
    IF results = <<>> THEN
        [status |-> "no_speech", language |-> OrUnknown(lang),
         text |-> NoneText, error |-> "No speech detected in audio"]
    ELSE IF ~Falsy(err) THEN
        [status |-> "failed", language |-> OrUnknown(lang),
         text |-> StrJoin(<<" ">>, results), error |-> err]
    ELSE
        [status |-> "completed", language |-> OrUnknown(lang),
         text |-> StrJoin(<<" ">>, results), error |-> None]

FileResultNoEmptyCheck(err, results, lang) ==
    IF ~Falsy(err) THEN
        [status |-> "failed", language |-> OrUnknown(lang),
         text |-> IF results # <<>> THEN StrJoin(<<" ">>, results) ELSE NoneText,
         error |-> err]
    ELSE
        [status |-> "completed", language |-> OrUnknown(lang),
         text |-> StrJoin(<<" ">>, results), error |-> None]

\* The result transcribe_file builds after the recognizer was stopped.
FileResult(err, results, lang) ==
    IF ~Falsy(err) THEN
        [status |-> "failed", language |-> OrUnknown(lang),
         text |-> IF results # <<>> THEN StrJoin(<<" ">>, results) ELSE NoneText,
         error |-> err]
    ELSE IF results = <<>> THEN
        [status |-> "no_speech", language |-> OrUnknown(lang),
         text |-> NoneText, error |-> "No speech detected in audio"]
    ELSE
        [status |-> "completed", language |-> OrUnknown(lang),
         text |-> StrJoin(<<" ">>, results), error |-> None]

\* loop.run_in_executor(None, recognizer.start_continuous_recognition): it
\* returns, or it raises and the except clause records a runtime error.
FileStart ==
    /\ mode = "file" /\ pc = "t_start"
    /\ \/ /\ eng' = "running"
          /\ pc' = "t_wait"
          /\ UNCHANGED error_message
       \/ /\ error_message' = "Runtime error during transcription"
          /\ pc' = "t_stop"
          /\ UNCHANGED eng
    /\ UNCHANGED <<mode, exc, connVars, stream, lateWrite, recognizer, events, pending,
                   procVars, log, all_results, detected_language, done, result, onceVars>>

\* recognized_handler, run by the engine's thread.
FileRecognized ==
    /\ mode = "file" /\ eng = "running" /\ Len(events) < MaxEvents
    /\ \E evt \in RecognizedEvents :
        /\ events' = Append(events, evt)
        /\ IF evt.reason = "RecognizedSpeech"
           THEN /\ detected_language' = ResolveLanguage(detected_language, evt.lang)
                /\ all_results' = Append(all_results, evt.text)
           ELSE UNCHANGED <<detected_language, all_results>>
    /\ UNCHANGED <<mode, exc, pc, connVars, stream, lateWrite, recognizer, eng, pending,
                   procVars, log, error_message, done, result, onceVars>>

\* canceled_handler, run by the engine's thread.
FileCanceled ==
    /\ mode = "file" /\ eng = "running" /\ Len(events) < MaxEvents
    /\ events' = Append(events, [type |-> "Canceled"])
    /\ error_message' = "Recognition canceled"
    /\ done' = TRUE
    /\ eng' = "canceled"
    /\ UNCHANGED <<mode, exc, pc, connVars, stream, lateWrite, recognizer, pending,
                   procVars, log, all_results, detected_language, result, onceVars>>

\* session_stopped_handler, run by the engine's thread: the session ends by
\* itself, after a cancellation, or because stop was called.
FileSessionStopped ==
    /\ mode = "file" /\ eng \in {"running", "canceled", "stopping"}
    /\ events' = Append(events, [type |-> "SessionStopped"])
    /\ done' = TRUE
    /\ eng' = "stopped"
    /\ UNCHANGED <<mode, exc, pc, connVars, stream, lateWrite, recognizer, pending,
                   procVars, log, all_results, detected_language, error_message,
                   result, onceVars>>

\* await done.wait()
FileWait ==
    /\ mode = "file" /\ pc = "t_wait" /\ done
    /\ pc' = "t_stop"
    /\ UNCHANGED <<mode, exc, connVars, stream, lateWrite, engVars, procVars, log,
                   fileVars, onceVars>>

FileStopErrorFails ==
    /\ mode = "file" /\ pc = "t_stop"
    /\ \/ /\ log' = Append(log, "stop")
          /\ eng' = (IF eng = "running" THEN "stopping" ELSE eng)
          /\ UNCHANGED error_message
       \/ /\ log' = log \o <<"stop", "stop_error">>
          /\ error_message' = "Runtime error during transcription"
          /\ UNCHANGED eng
    /\ pc' = "t_result"
    /\ UNCHANGED <<mode, exc, connVars, stream, lateWrite, recognizer, events, pending,
                   procVars, all_results, detected_language, done, result, onceVars>>

\* finally: stop_continuous_recognition in the executor; an exception of the
\* stop call is logged (logger.error) and swallowed.
FileStop ==
    /\ mode = "file" /\ pc = "t_stop"
    /\ \/ /\ log' = Append(log, "stop")
          /\ eng' = (IF eng = "running" THEN "stopping" ELSE eng)
       \/ /\ log' = log \o <<"stop", "stop_error">>
          /\ UNCHANGED eng
    /\ pc' = "t_result"
    /\ UNCHANGED <<mode, exc, connVars, stream, lateWrite, recognizer, events, pending,
                   procVars, fileVars, onceVars>>

\* --- Process results ---
FileReturn ==
    /\ mode = "file" /\ pc = "t_result"
    /\ result' = FileResult(error_message, all_results, detected_language)
    /\ pc' = "done"
    /\ UNCHANGED <<mode, exc, connVars, stream, lateWrite, engVars, procVars, log,
                   all_results, detected_language, error_message, done, onceVars>>

\* ------------------------------------------------- connection and messages
Msg(status, language, text, error) ==
    [status |-> status, language |-> language, text |-> text, error |-> error]

\* {"status": "error", "error": ...}
ErrorMsg(error) == Msg("error", None, NoneText, error)
\* {"status": "stopped", "error": None}
StoppedMsg == Msg("stopped", None, NoneText, None)

\* websocket.send_json: the peer is there and the socket is open.
CanSend == clientConnected /\ ~wsClosed

\* websocket.send_json where the caller swallows its exception: the message
\* reaches the client or is lost.
SendJson(msg) == IF CanSend THEN Append(sent, msg) ELSE sent

\* send_result: looks the session up in the registry and sends; an exception
\* of send_json is logged and swallowed.
SendResult(msg) == IF Self \in registry THEN SendJson(msg) ELSE sent

\* The positions where the handler runs on without yielding to the loop; at
\* every other position it is at an await, and the loop may run the reader
\* tasks and the queued callbacks.
SyncPcs == {"f_close", "f_kill", "f_release"}
Suspended == pc \notin SyncPcs

\* ConnectionManager.connect: accept, then insert the session's id.
Connect ==
    /\ pc = "connect"
    /\ registry' = registry \cup {Self}
    /\ pc' = "mkstream"
    /\ UNCHANGED <<mode, exc, clientConnected, wsClosed, sent, stream, lateWrite,
                   engVars, procVars, log, fileVars, onceVars>>

DisconnectAll(reg, id) == IF id \in reg THEN {} ELSE reg

\* ConnectionManager.disconnect: remove the id when it is there.
Disconnect(reg, id) == IF id \in reg THEN reg \ {id} ELSE reg

\* Another session's handler, run by the same loop while this session's
\* handler is suspended: its manager.connect at its start.
OtherConnect ==
    /\ Suspended /\ Other \notin registry
    /\ registry' = registry \cup {Other}
    /\ UNCHANGED <<mode, exc, pc, clientConnected, wsClosed, sent, stream, lateWrite,
                   engVars, procVars, log, fileVars, onceVars>>

\* The other session's manager.disconnect in its finally clause.
OtherDisconnect ==
    /\ Suspended /\ Other \in registry
    /\ registry' = Disconnect(registry, Other)
    /\ UNCHANGED <<mode, exc, pc, clientConnected, wsClosed, sent, stream, lateWrite,
                   engVars, procVars, log, fileVars, onceVars>>

\* The position that follows `step` in a sequence of positions.
After(order, step) ==
    order[(CHOOSE i \in 1..Len(order) : order[i] = step) + 1]

\* ------------------------------------- code the two handlers have in common
\* An exception of the given kind leaves the try block.
Raise(kind) == pc' = "except" /\ exc' = kind

\* PushAudioInputStream(...): the stream is made, or the constructor raises.
HandlerMkStream(next) ==
    /\ pc = "mkstream"
    /\ \/ stream' = "open" /\ pc' = next /\ exc' = exc
       \/ stream' = stream /\ Raise("StreamInit")
    /\ UNCHANGED <<mode, connVars, lateWrite, engVars, procVars, log, fileVars, onceVars>>

\* create_subprocess_exec and the two create_task calls; or the spawn raises.
HandlerSpawn(next) ==
    /\ pc = "spawn"
    /\ \/ /\ ffmpeg' = "running"
          /\ stdinOpen' = TRUE
          /\ stdoutTask' = "running"
          /\ stderrTask' = "running"
          /\ pc' = next
          /\ exc' = exc
       \/ /\ Raise("Spawn")
          /\ UNCHANGED <<ffmpeg, stdinOpen, stdoutTask, stderrTask>>
    /\ UNCHANGED <<mode, connVars, stream, lateWrite, engVars, crashed, inBuf,
                   outBuf, pcmWritten, log, fileVars, onceVars>>

\* stdin.write(data); await stdin.drain().  While the process runs the frame
\* goes into the pipe (drain waits while the pipe is full); once the process
\* is gone the transport drops the frame, or drain raises (BrokenPipeError,
\* ConnectionResetError).
WriteFrame(here) ==
    \/ /\ ffmpeg = "running" /\ inBuf < PipeCapacity
       /\ inBuf' = inBuf + 1
       /\ pc' = here /\ exc' = exc
    \/ /\ ffmpeg # "running"
       /\ inBuf' = inBuf
       /\ \/ pc' = here /\ exc' = exc
          \/ Raise("BrokenPipe")

\* stdin.close() and wait_closed(); an exception is swallowed.
HandlerCloseInput ==
    /\ pc = "closein"
    /\ stdinOpen' = FALSE
    /\ pc' = "await_stdout"
    /\ UNCHANGED <<mode, exc, connVars, stream, lateWrite, engVars, ffmpeg, crashed,
                   inBuf, outBuf, pcmWritten, stdoutTask, stderrTask, log, fileVars,
                   onceVars>>

HandlerAwaitStdoutNoWait ==
    /\ pc = "await_stdout"
    /\ IF stdoutTask # "failed"
       THEN pc' = "await_stderr" /\ exc' = exc
       ELSE Raise("StdoutTask")
    /\ UNCHANGED <<mode, connVars, stream, lateWrite, engVars, procVars, log,
                   fileVars, onceVars>>

\* await of the stdout task: returns when the task ended, re-raising its
\* exception.
HandlerAwaitStdout ==
    /\ pc = "await_stdout"
    /\ stdoutTask \in {"done", "failed"}
    /\ IF stdoutTask = "done"
       THEN pc' = "await_stderr" /\ exc' = exc
       ELSE Raise("StdoutTask")
    /\ UNCHANGED <<mode, connVars, stream, lateWrite, engVars, procVars, log,
                   fileVars, onceVars>>

\* await of the stderr task
HandlerAwaitStderr ==
    /\ pc = "await_stderr"
    /\ stderrTask = "done"
    /\ pc' = "wait"
    /\ UNCHANGED <<mode, exc, connVars, stream, lateWrite, engVars, procVars, log,
                   fileVars, onceVars>>

\* except Exception: send an error message on the websocket itself; an
\* exception of that send is passed over.  The finally clause follows.
HandlerExcept(order) ==
    /\ pc = "except"
    /\ sent' = SendJson(ErrorMsg(exc))
    /\ exc' = None
    /\ pc' = Head(order)
    /\ UNCHANGED <<mode, registry, clientConnected, wsClosed, stream, lateWrite,
                   engVars, procVars, log, fileVars, onceVars>>

HandlerKillUnguarded(order) ==
    /\ pc = "f_kill"
    /\ IF ffmpeg # "none"
       THEN /\ log' = Append(log, "kill")
            /\ \/ ffmpeg' = (IF ffmpeg = "reaped" THEN ffmpeg ELSE "dead") /\ pc' = "f_killwait"
               \/ ffmpeg' = ffmpeg /\ pc' = After(order, "f_kill")
       ELSE /\ pc' = After(order, "f_kill")
            /\ UNCHANGED <<log, ffmpeg>>
    /\ UNCHANGED <<mode, exc, connVars, stream, lateWrite, engVars, crashed, stdinOpen,
                   inBuf, outBuf, pcmWritten, stdoutTask, stderrTask, fileVars, onceVars>>

\* finally, `if ffmpeg_process and ffmpeg_process.returncode is None:` kill,
\* then wait; an exception of kill is logged and swallowed.
HandlerKill(order) ==
    /\ pc = "f_kill"
    /\ IF ffmpeg \in {"running", "dead"}
       THEN /\ log' = Append(log, "kill")
            /\ \/ ffmpeg' = "dead" /\ pc' = "f_killwait"
               \/ ffmpeg' = ffmpeg /\ pc' = After(order, "f_kill")
       ELSE /\ pc' = After(order, "f_kill")
            /\ UNCHANGED <<log, ffmpeg>>
    /\ UNCHANGED <<mode, exc, connVars, stream, lateWrite, engVars, crashed, stdinOpen,
                   inBuf, outBuf, pcmWritten, stdoutTask, stderrTask, fileVars, onceVars>>

\* await ffmpeg_process.wait() after the kill.
HandlerKillWait(order) ==
    /\ pc = "f_killwait"
    /\ ffmpeg = "reaped"
    /\ pc' = After(order, "f_kill")
    /\ UNCHANGED <<mode, exc, connVars, stream, lateWrite, engVars, procVars, log,
                   fileVars, onceVars>>

\* manager.disconnect(client_id)
HandlerRelease(order) ==
    /\ pc = "f_release"
    /\ registry' = Disconnect(registry, Self)
    /\ log' = Append(log, "release")
    /\ pc' = After(order, "f_release")
    /\ UNCHANGED <<mode, exc, clientConnected, wsClosed, sent, stream, lateWrite,
                   engVars, procVars, fileVars, onceVars>>

\* await websocket.close(); an exception is passed over.
HandlerCloseWs(order) ==
    /\ pc = "f_wsclose"
    /\ wsClosed' = TRUE
    /\ log' = Append(log, "wsclose")
    /\ pc' = After(order, "f_wsclose")
    /\ UNCHANGED <<mode, exc, registry, clientConnected, sent, stream, lateWrite,
                   engVars, procVars, fileVars, onceVars>>

\* The stdout reader task, one iteration: read(1024) yields a chunk, which is
\* written to the push stream, or the end of the stream, which ends the task.
\* A write to a stream that was closed already is an error of the engine's
\* library: it raises (the task ends with that exception) or is ignored.
ReadStdout ==
    /\ stdoutTask = "running" /\ Suspended
    /\ \/ /\ outBuf > 0
          /\ outBuf' = outBuf - 1
          /\ IF stream = "closed"
             THEN /\ lateWrite' = TRUE
                  /\ stdoutTask' \in {"running", "failed"}
                  /\ UNCHANGED pcmWritten
             ELSE /\ pcmWritten' = TRUE
                  /\ UNCHANGED <<lateWrite, stdoutTask>>
       \/ /\ outBuf = 0 /\ ffmpeg \in {"dead", "reaped"}
          /\ stdoutTask' = "done"
          /\ UNCHANGED <<outBuf, lateWrite, pcmWritten>>
    /\ UNCHANGED <<mode, exc, pc, connVars, stream, engVars, ffmpeg, crashed, stdinOpen,
                   inBuf, stderrTask, log, fileVars, onceVars>>

\* The stderr reader task: lines are logged; the end of the stream ends it.
ReadStderr ==
    /\ stderrTask = "running" /\ Suspended
    /\ ffmpeg \in {"dead", "reaped"}
    /\ stderrTask' = "done"
    /\ UNCHANGED <<mode, exc, pc, connVars, stream, lateWrite, engVars, ffmpeg, crashed,
                   stdinOpen, inBuf, outBuf, pcmWritten, stdoutTask, log, fileVars,
                   onceVars>>

\* ------------------------------------------------------ the transcoder process
\* ffmpeg -i pipe:0 ... pipe:1: input read from stdin comes out as PCM; the
\* process waits while its stdout pipe is full.
FfmpegTranscode ==
    /\ ffmpeg = "running" /\ inBuf > 0 /\ outBuf < PipeCapacity
    /\ inBuf' = inBuf - 1
    /\ outBuf' = outBuf + 1
    /\ UNCHANGED <<mode, exc, pc, connVars, stream, lateWrite, engVars, ffmpeg, crashed,
                   stdinOpen, pcmWritten, stdoutTask, stderrTask, log, fileVars,
                   onceVars>>

\* The process ends by itself once its stdin was closed and its input is used up.
FfmpegExit ==
    /\ ffmpeg = "running" /\ ~stdinOpen /\ inBuf = 0
    /\ ffmpeg' = "dead"
    /\ UNCHANGED <<mode, exc, pc, connVars, stream, lateWrite, engVars, crashed, stdinOpen,
                   inBuf, outBuf, pcmWritten, stdoutTask, stderrTask, log, fileVars,
                   onceVars>>

\* The process dies while its stdin is still open: unread input is lost.
FfmpegCrash ==
    /\ ffmpeg = "running" /\ stdinOpen
    /\ ffmpeg' = "dead"
    /\ crashed' = (crashed \/ pc \in {"recv", "loop", "receive"})
    /\ inBuf' = 0
    /\ UNCHANGED <<mode, exc, pc, connVars, stream, lateWrite, engVars, stdinOpen,
                   outBuf, pcmWritten, stdoutTask, stderrTask, log, fileVars, onceVars>>

\* The loop's child watcher sees the exit: returncode is set from here on.
FfmpegReaped ==
    /\ ffmpeg = "dead" /\ Suspended
    /\ ffmpeg' = "reaped"
    /\ UNCHANGED <<mode, exc, pc, connVars, stream, lateWrite, engVars, crashed, stdinOpen,
                   inBuf, outBuf, pcmWritten, stdoutTask, stderrTask, log, fileVars,
                   onceVars>>

\* ---------------------------------------------------- recognize_continuous
\* The fragments the engine delivers to a streaming session.
\* (A NoMatch result is only logged by the handler and is left out.)
StreamEvents ==
    {e \in RecognizedEvents :
        <<e.text, e.lang>> \in {<<(<<"a">>), "es">>, <<(<<"b">>), "en">>}}

\* recognized_handler (engine thread): a recognized fragment is handed to the
\* loop with run_coroutine_threadsafe.
StreamRecognized ==
    /\ mode = "continuous" /\ eng = "running" /\ Len(events) < MaxStreamEvents
    /\ \E evt \in StreamEvents :
        /\ events' = Append(events, evt)
        /\ pending' = Append(pending, Msg("recognized", evt.lang, evt.text, None))
    /\ UNCHANGED <<mode, exc, pc, connVars, stream, lateWrite, recognizer, eng, procVars,
                   log, fileVars, onceVars>>

\* canceled_handler (engine thread)
StreamCanceled ==
    /\ mode = "continuous" /\ eng = "running" /\ Len(events) < MaxStreamEvents
    /\ events' = Append(events, [type |-> "Canceled"])
    /\ pending' = Append(pending, ErrorMsg("Canceled"))
    /\ eng' = "canceled"
    /\ UNCHANGED <<mode, exc, pc, connVars, stream, lateWrite, recognizer, procVars,
                   log, fileVars, onceVars>>

\* session_stopped_handler (engine thread): the session ends by itself, after
\* a cancellation, or because stop was called.
StreamSessionStopped ==
    /\ mode = "continuous" /\ eng \in {"running", "canceled", "stopping"}
    /\ events' = Append(events, [type |-> "SessionStopped"])
    /\ pending' = Append(pending, StoppedMsg)
    /\ eng' = "stopped"
    /\ UNCHANGED <<mode, exc, pc, connVars, stream, lateWrite, recognizer, procVars,
                   log, fileVars, onceVars>>

RunCallbackLifo ==
    /\ pending # <<>> /\ Suspended
    /\ sent' = SendResult(pending[Len(pending)])
    /\ pending' = SubSeq(pending, 1, Len(pending) - 1)
    /\ UNCHANGED <<mode, exc, pc, registry, clientConnected, wsClosed, stream, lateWrite,
                   recognizer, eng, events, procVars, log, fileVars, onceVars>>

\* The loop runs the oldest queued send_result coroutine.
RunCallback ==
    /\ pending # <<>> /\ Suspended
    /\ sent' = SendResult(Head(pending))
    /\ pending' = Tail(pending)
    /\ UNCHANGED <<mode, exc, pc, registry, clientConnected, wsClosed, stream, lateWrite,
                   recognizer, eng, events, procVars, log, fileVars, onceVars>>

\* recognize_continuous, called by the handler: the recognizer is built, the
\* handlers are connected and recognition is started; or a step raises, the
\* callback is awaited with an error message and the exception is re-raised
\* into the handler.
ContSetup ==
    /\ mode = "continuous" /\ pc = "setup"
    /\ \/ /\ recognizer' = TRUE
          /\ eng' = "running"
          /\ pc' = "spawn"
          /\ UNCHANGED <<sent, exc>>
       \/ /\ sent' = SendResult(ErrorMsg("Setup"))
          /\ Raise("Setup")
          /\ UNCHANGED <<recognizer, eng>>
    /\ UNCHANGED <<mode, registry, clientConnected, wsClosed, stream, lateWrite,
                   events, pending, procVars, log, fileVars, onceVars>>

\* ------------------------------------------ websocket_continuous_recognition
ContFinallyCloseFirst == <<"f_close", "f_stop", "f_kill", "f_release", "f_wsclose", "done">>

\* The finally clause: the handler's positions in it, in program order.
ContFinally == <<"f_stop", "f_close", "f_kill", "f_release", "f_wsclose", "done">>

ContMkStream == mode = "continuous" /\ HandlerMkStream("setup")

ContSpawn == mode = "continuous" /\ HandlerSpawn("recv")

\* The main loop, one iteration: wait_for(receive_bytes(), 30.0).
\*  - a frame: written to stdin and drained;
\*  - the idle timeout, or the client's disconnect: break;
\*  - any other exception of receive_bytes (a text frame): the outer except.
\* An empty frame changes nothing.  ffmpeg_process.stdin is a StreamWriter
\* for a PIPE and is never falsy: the `else: break` of the loop is not taken.
ContRecv ==
    /\ mode = "continuous" /\ pc = "recv"
    /\ \/ /\ WriteFrame("recv")
          /\ UNCHANGED clientConnected
       \/ /\ pc' = "closein"
          /\ UNCHANGED <<inBuf, clientConnected, exc>>
       \/ /\ clientConnected' = FALSE
          /\ pc' = "closein"
          /\ UNCHANGED <<inBuf, exc>>
       \/ /\ Raise("Receive")
          /\ UNCHANGED <<inBuf, clientConnected>>
    /\ UNCHANGED <<mode, registry, wsClosed, sent, stream, lateWrite, engVars,
                   ffmpeg, crashed, stdinOpen, outBuf, pcmWritten, stdoutTask,
                   stderrTask, log, fileVars, onceVars>>

ContCloseInput == mode = "continuous" /\ HandlerCloseInput

ContAwaitStdout == mode = "continuous" /\ HandlerAwaitStdout

ContAwaitStderr == mode = "continuous" /\ HandlerAwaitStderr

\* await ffmpeg_process.wait(); the try block ends and the finally begins.
ContWait ==
    /\ mode = "continuous" /\ pc = "wait"
    /\ ffmpeg = "reaped"
    /\ pc' = Head(ContFinally)
    /\ UNCHANGED <<mode, exc, connVars, stream, lateWrite, engVars, procVars, log,
                   fileVars, onceVars>>

ContExcept == mode = "continuous" /\ HandlerExcept(ContFinally)

\* finally, `if recognizer:` stop_continuous_recognition is handed to the
\* executor: the engine is told to stop, or the call raises.
ContStop ==
    /\ mode = "continuous" /\ pc = "f_stop"
    /\ IF recognizer
       THEN /\ log' = Append(log, "stop")
            /\ \/ eng' = (IF eng = "running" THEN "stopping" ELSE eng)
               \/ eng' = eng
            /\ pc' = "f_stopwait"
       ELSE /\ pc' = After(ContFinally, "f_stop")
            /\ UNCHANGED <<log, eng>>
    /\ UNCHANGED <<mode, exc, connVars, stream, lateWrite, recognizer, events, pending,
                   procVars, fileVars, onceVars>>

\* The await of the stop call returns; an exception of the call is logged
\* and swallowed.
ContStopWait ==
    /\ mode = "continuous" /\ pc = "f_stopwait"
    /\ pc' = After(ContFinally, "f_stop")
    /\ UNCHANGED <<mode, exc, connVars, stream, lateWrite, engVars, procVars, log,
                   fileVars, onceVars>>

\* finally, `if stream: stream.close()`, outside any try: when close raises,
\* the exception leaves the handler and the rest of the finally is not run.
ContCloseStream ==
    /\ mode = "continuous" /\ pc = "f_close"
    /\ IF stream # "none"
       THEN /\ log' = Append(log, "close")
            /\ \/ stream' = "closed" /\ pc' = After(ContFinally, "f_close")
               \/ stream' = stream /\ pc' = "aborted"
       ELSE /\ pc' = After(ContFinally, "f_close")
            /\ UNCHANGED <<log, stream>>
    /\ UNCHANGED <<mode, exc, connVars, lateWrite, engVars, procVars, fileVars, onceVars>>

ContKill == mode = "continuous" /\ HandlerKill(ContFinally)

ContKillWait == mode = "continuous" /\ HandlerKillWait(ContFinally)

ContRelease == mode = "continuous" /\ HandlerRelease(ContFinally)

ContCloseWs == mode = "continuous" /\ HandlerCloseWs(ContFinally)

\* read_ffmpeg_stdout
ContStdoutRead == mode = "continuous" /\ ReadStdout

\* read_ffmpeg_stderr
ContStderrRead == mode = "continuous" /\ ReadStderr

\* ---------------------------------------------------- recognize_from_stream
\* What recognize_from_stream returns: recognize_once yields a recognized
\* fragment (only from a stream that got audio), or a NoMatch or Canceled
\* result, or a step raises.
OnceResults ==
    {Msg("completed", l, <<"a">>, None) : l \in IF pcmWritten THEN Langs ELSE {}}
    \cup {Msg("no_match_or_error", None, NoneText, "Stream (once) ended"),
          Msg("failed", None, NoneText, "exception")}

\* ---------------------------------------------- websocket_single_recognition
\* The finally clause: the handler's positions in it, in program order.
OnceFinally == <<"f_close", "f_kill", "f_release", "f_wsclose", "done">>

\* The stream is made; timeout_duration and start_time are set.
OnceMkStream == mode = "once" /\ HandlerMkStream("spawn")

OnceSpawn == mode = "once" /\ HandlerSpawn("loop")

OnceLoopFixedCap ==
    /\ mode = "once" /\ pc = "loop"
    /\ \E now \in elapsed..MaxElapsed :
        /\ elapsed' = now
        /\ IF now >= Budget
           THEN pc' = "closein" /\ UNCHANGED waitCap
           ELSE pc' = "receive" /\ waitCap' = CapTicks
    /\ UNCHANGED <<mode, exc, connVars, stream, lateWrite, engVars, procVars, log,
                   fileVars, gotFrame>>

\* The read loop, the head of one iteration: the elapsed time is read (any
\* amount of time may have passed since the last reading: the spawn, or the
\* last receive and drain); at the budget the loop ends, otherwise
\* wait_for(receive_bytes(), min(remaining, 1.0)) is started.
OnceLoop ==
    /\ mode = "once" /\ pc = "loop"
    /\ \E now \in elapsed..MaxElapsed :
        /\ elapsed' = now
        /\ IF now >= Budget
           THEN pc' = "closein" /\ UNCHANGED waitCap
           ELSE pc' = "receive" /\ waitCap' = Min(Budget - now, CapTicks)
    /\ UNCHANGED <<mode, exc, connVars, stream, lateWrite, engVars, procVars, log,
                   fileVars, gotFrame>>

OnceReceiveIdleContinues ==
    /\ mode = "once" /\ pc = "receive"
    /\ \/ /\ WriteFrame("loop")
          /\ gotFrame' = TRUE
          /\ UNCHANGED clientConnected
       \/ /\ pc' = "loop"
          /\ UNCHANGED <<inBuf, clientConnected, gotFrame, exc>>
       \/ /\ clientConnected' = FALSE
          /\ pc' = "closein"
          /\ UNCHANGED <<inBuf, gotFrame, exc>>
       \/ /\ Raise("Receive")
          /\ UNCHANGED <<inBuf, clientConnected, gotFrame>>
    /\ UNCHANGED <<mode, registry, wsClosed, sent, stream, lateWrite, engVars,
                   ffmpeg, crashed, stdinOpen, outBuf, pcmWritten, stdoutTask,
                   stderrTask, log, fileVars, elapsed, waitCap>>

\* The receive of one iteration ends:
\*  - a frame arrived in time: written to stdin and drained, next iteration;
\*  - no frame in that time: break;
\*  - the client's disconnect: break;
\*  - any other exception of receive_bytes: the outer except.
\* ffmpeg_process.stdin is a StreamWriter for a PIPE and is never falsy: the
\* `else: break` of the loop is not taken.
OnceReceive ==
    /\ mode = "once" /\ pc = "receive"
    /\ \/ /\ WriteFrame("loop")
          /\ gotFrame' = TRUE
          /\ UNCHANGED clientConnected
       \/ /\ pc' = "closein"
          /\ UNCHANGED <<inBuf, clientConnected, gotFrame, exc>>
       \/ /\ clientConnected' = FALSE
          /\ pc' = "closein"
          /\ UNCHANGED <<inBuf, gotFrame, exc>>
       \/ /\ Raise("Receive")
          /\ UNCHANGED <<inBuf, clientConnected, gotFrame>>
    /\ UNCHANGED <<mode, registry, wsClosed, sent, stream, lateWrite, engVars,
                   ffmpeg, crashed, stdinOpen, outBuf, pcmWritten, stdoutTask,
                   stderrTask, log, fileVars, elapsed, waitCap>>

OnceCloseInput == mode = "once" /\ HandlerCloseInput

OnceAwaitStdout == mode = "once" /\ HandlerAwaitStdout

OnceAwaitStderr == mode = "once" /\ HandlerAwaitStderr

\* await ffmpeg_process.wait(), then stream.close(): when close raises the
\* outer except is entered.
OnceWait ==
    /\ mode = "once" /\ pc = "wait"
    /\ ffmpeg = "reaped"
    /\ \/ stream' = "closed" /\ pc' = "recognize" /\ exc' = exc
       \/ stream' = stream /\ Raise("StreamClose")
    /\ UNCHANGED <<mode, connVars, lateWrite, engVars, procVars, log, fileVars,
                   onceVars>>

\* result = await transcription_service.recognize_from_stream(stream)
OnceRecognize ==
    /\ mode = "once" /\ pc = "recognize"
    /\ result' \in OnceResults
    /\ pc' = "send"
    /\ UNCHANGED <<mode, exc, connVars, stream, lateWrite, engVars, procVars, log,
                   all_results, detected_language, error_message, done, onceVars>>

\* await websocket.send_json(result): when it raises the outer except is
\* entered.
OnceSend ==
    /\ mode = "once" /\ pc = "send"
    /\ IF CanSend
       THEN sent' = Append(sent, result) /\ pc' = Head(OnceFinally) /\ exc' = exc
       ELSE sent' = sent /\ Raise("Send")
    /\ UNCHANGED <<mode, registry, clientConnected, wsClosed, stream, lateWrite,
                   engVars, procVars, log, fileVars, onceVars>>

OnceExcept == mode = "once" /\ HandlerExcept(OnceFinally)

\* finally, `if stream:` stream.close() in a try; an exception is passed over.
OnceCloseStream ==
    /\ mode = "once" /\ pc = "f_close"
    /\ IF stream # "none"
       THEN /\ log' = Append(log, "close")
            /\ stream' \in {"closed", stream}
       ELSE UNCHANGED <<log, stream>>
    /\ pc' = After(OnceFinally, "f_close")
    /\ UNCHANGED <<mode, exc, connVars, lateWrite, engVars, procVars, fileVars, onceVars>>

OnceKill == mode = "once" /\ HandlerKill(OnceFinally)

OnceKillWait == mode = "once" /\ HandlerKillWait(OnceFinally)

OnceRelease == mode = "once" /\ HandlerRelease(OnceFinally)

OnceCloseWs == mode = "once" /\ HandlerCloseWs(OnceFinally)

\* read_stdout_once
OnceStdoutRead == mode = "once" /\ ReadStdout

\* read_stderr_once
OnceStderrRead == mode = "once" /\ ReadStderr

\* ------------------------------------------------------------ the machine
InitVars ==
    /\ pc = (IF mode = "file" THEN "t_start" ELSE "connect")
    /\ registry = {}
    /\ clientConnected = TRUE
    /\ wsClosed = FALSE
    /\ sent = <<>>
    /\ stream = "none"
    /\ lateWrite = FALSE
    /\ recognizer = FALSE
    /\ eng = "idle"
    /\ events = <<>>
    /\ pending = <<>>
    /\ ffmpeg = "none"
    /\ crashed = FALSE
    /\ stdinOpen = FALSE
    /\ inBuf = 0
    /\ outBuf = 0
    /\ pcmWritten = FALSE
    /\ stdoutTask = "none"
    /\ stderrTask = "none"
    /\ exc = None
    /\ log = <<>>
    /\ all_results = <<>>
    /\ detected_language = None
    /\ error_message = None
    /\ done = FALSE
    /\ result = NoResult
    /\ elapsed = 0
    /\ waitCap = 0
    /\ gotFrame = FALSE

\* One call of transcribe_file.
InitFile == mode = "file" /\ InitVars

NextFile ==
    \/ FileStart
    \/ FileRecognized
    \/ FileCanceled
    \/ FileSessionStopped
    \/ FileWait
    \/ FileStop
    \/ FileReturn

SpecFile == InitFile /\ [][NextFile]_vars

\* The transcoder process and what the loop does for it.
NextFfmpeg ==
    \/ FfmpegTranscode
    \/ FfmpegExit
    \/ FfmpegCrash
    \/ FfmpegReaped

\* One session of /ws/recognize-continuous.
InitCont == mode = "continuous" /\ InitVars

NextCont ==
    \/ Connect
    \/ ContMkStream
    \/ ContSetup
    \/ ContSpawn
    \/ ContRecv
    \/ ContCloseInput
    \/ ContAwaitStdout
    \/ ContAwaitStderr
    \/ ContWait
    \/ ContExcept
    \/ ContStop
    \/ ContStopWait
    \/ ContCloseStream
    \/ ContKill
    \/ ContKillWait
    \/ ContRelease
    \/ ContCloseWs
    \/ ContStdoutRead
    \/ ContStderrRead
    \/ NextFfmpeg
    \/ StreamRecognized
    \/ StreamCanceled
    \/ StreamSessionStopped
    \/ RunCallback

SpecCont == InitCont /\ [][NextCont]_vars

\* One session of /ws/recognize-once.
InitOnce == mode = "once" /\ InitVars

NextOnce ==
    \/ Connect
    \/ OnceMkStream
    \/ OnceSpawn
    \/ OnceLoop
    \/ OnceReceive
    \/ OnceCloseInput
    \/ OnceAwaitStdout
    \/ OnceAwaitStderr
    \/ OnceWait
    \/ OnceRecognize
    \/ OnceSend
    \/ OnceExcept
    \/ OnceCloseStream
    \/ OnceKill
    \/ OnceKillWait
    \/ OnceRelease
    \/ OnceCloseWs
    \/ OnceStdoutRead
    \/ OnceStderrRead
    \/ NextFfmpeg

SpecOnce == InitOnce /\ [][NextOnce]_vars

\* One session of either endpoint among other sessions, which come and go.
\* The audio holds no speech: the engine's callbacks are those of Canceled and
\* SessionStopped.
InitReg == InitCont \/ InitOnce

NextReg ==
    \/ Connect \/ ContMkStream \/ ContSetup \/ ContSpawn \/ ContRecv \/ ContCloseInput
    \/ ContAwaitStdout \/ ContAwaitStderr \/ ContWait \/ ContExcept
    \/ ContStop \/ ContStopWait \/ ContCloseStream \/ ContKill \/ ContKillWait
    \/ ContRelease \/ ContCloseWs \/ ContStdoutRead \/ ContStderrRead
    \/ StreamCanceled \/ StreamSessionStopped \/ RunCallback
    \/ NextOnce
    \/ OtherConnect
    \/ OtherDisconnect

SpecReg == InitReg /\ [][NextReg]_vars

\* Any session.
Init == InitFile \/ InitCont \/ InitOnce
Next == NextFile \/ NextCont \/ NextOnce
Spec == Init /\ [][Next]_vars

\* The steps the event loop runs: the handler between two awaits, the reader
\* tasks, the queued callbacks and the child watcher.  The loop runs every
\* task that is ready; the engine's thread, the client and the transcoder
\* process owe the session nothing.
LoopStep ==
    \/ Connect
    \/ ContMkStream \/ ContSetup \/ ContSpawn \/ ContRecv \/ ContCloseInput
    \/ ContAwaitStdout \/ ContAwaitStderr \/ ContWait \/ ContExcept
    \/ ContStop \/ ContStopWait \/ ContCloseStream \/ ContKill \/ ContKillWait
    \/ ContRelease \/ ContCloseWs \/ ContStdoutRead \/ ContStderrRead
    \/ OnceMkStream \/ OnceSpawn \/ OnceLoop \/ OnceReceive \/ OnceCloseInput
    \/ OnceAwaitStdout \/ OnceAwaitStderr \/ OnceWait \/ OnceRecognize \/ OnceSend
    \/ OnceExcept \/ OnceCloseStream \/ OnceKill \/ OnceKillWait
    \/ OnceRelease \/ OnceCloseWs \/ OnceStdoutRead \/ OnceStderrRead
    \/ RunCallback \/ FfmpegReaped
    \/ FileStart \/ FileWait \/ FileStop \/ FileReturn

\* Any session, the event loop running whatever is ready.
SpecLive == Init /\ [][Next]_vars /\ WF_vars(LoopStep)

\* ------------------------------------------------------------------ claims
\* The handler has returned, or an exception has left it.
HandlerEnded == pc \in {"done", "aborted"}

\* How often x occurs in a sequence.
Count(seq, x) == Cardinality({i \in 1..Len(seq) : seq[i] = x})

\* The recognized fragments among the delivered events, in arrival order.
Fragments ==
    SelectSeq(events, LAMBDA e : e.type = "Recognized" /\ e.reason = "RecognizedSpeech")

HasEvent(type) == \E i \in 1..Len(events) : events[i].type = type

\* The texts of a sequence of fragments.
TextsOf(frags) == [i \in 1..Len(frags) |-> frags[i].text]

\* The texts joined by single spaces, in order.
RECURSIVE SpaceJoined(_)
SpaceJoined(texts) ==
    IF texts = <<>> THEN <<>>
    ELSE IF Len(texts) = 1 THEN texts[1]
    ELSE SpaceJoined(SubSeq(texts, 1, Len(texts) - 1)) \o <<" ">> \o texts[Len(texts)]

\* The messages of `sent` that end a session: in continuous mode those with
\* status stopped or error, in one-shot mode every message.
Terminals ==
    {i \in 1..Len(sent) :
        mode = "continuous" => sent[i].status \in {"stopped", "error"}}

\* C1: the client receives exactly one terminal message per session: never
\* two, and, when the handler has ended with the client still connected, not
\* zero.  (Refuted: a setup failure in continuous mode sends two error
\* messages.)
C1_ExactlyOneTerminal ==
    /\ Cardinality(Terminals) <= 1
    /\ (HandlerEnded /\ clientConnected) => Cardinality(Terminals) = 1

\* C2: transcribe_file, N >= 1 Recognized events followed by SessionStopped
\* and no Canceled event: the result is completed, its error is null and its
\* text is the fragments' texts joined by single spaces in arrival order.
C2_CompletedJoin ==
    (/\ mode = "file" /\ pc = "done"
     /\ Len(Fragments) >= 1 /\ HasEvent("SessionStopped") /\ ~HasEvent("Canceled"))
    => /\ result.status = "completed"
       /\ result.error = None
       /\ result.text = SpaceJoined(TextsOf(Fragments))

C2_Witness ==
    /\ mode = "file" /\ pc = "done"
    /\ HasEvent("SessionStopped") /\ ~HasEvent("Canceled")
    /\ TextsOf(Fragments) = <<(<<"b">>), (<<"a">>), (<<"b">>)>>
    /\ result.text = <<"b", " ", "a", " ", "b">>

\* C3: transcribe_file, Canceled after M >= 0 Recognized events: the result
\* is failed, its error is not null, and its text is the space-join of those
\* M fragments, or null when M = 0.
C3_CanceledFailed ==
    (mode = "file" /\ pc = "done" /\ HasEvent("Canceled"))
    => /\ result.status = "failed"
       /\ result.error # None
       /\ result.text = (IF Len(Fragments) = 0 THEN NoneText
                         ELSE SpaceJoined(TextsOf(Fragments)))

C3_Witness ==
    /\ mode = "file" /\ pc = "done" /\ HasEvent("Canceled")
    /\ Len(Fragments) = 2
    /\ result.status = "failed"
    /\ result.text = <<"a", " ", "b">>

\* C4: transcribe_file, SessionStopped with no Recognized event before it and
\* no Canceled event: the result is no_speech and its text is null.
C4_NoSpeech ==
    (/\ mode = "file" /\ pc = "done"
     /\ Len(Fragments) = 0 /\ HasEvent("SessionStopped") /\ ~HasEvent("Canceled"))
    => /\ result.status = "no_speech"
       /\ result.text = NoneText

C4_Witness ==
    /\ mode = "file" /\ pc = "done"
    /\ Len(Fragments) = 0 /\ HasEvent("SessionStopped") /\ ~HasEvent("Canceled")
    /\ result.status = "no_speech"

\* The language resolved from one event: what the engine reports, or the
\* sentinel when it could not be determined.
Resolved(lang) == IF lang \in {Undetermined, LangRaises} THEN "unknown" ELSE lang

\* C5: transcribe_file, the result's language is the one resolved from the
\* first Recognized event, whatever that event and the later ones carry.
\* (Refuted: an empty language on the first event lets the second event set
\* the language.)
C5_LanguageFromFirst ==
    (mode = "file" /\ pc = "done" /\ Len(Fragments) >= 1)
    => result.language = Resolved(Fragments[1].lang)

\* The statuses of the outbound message contract.
ContractStatuses ==
    {"recognized", "completed", "no_speech", "no_match", "failed", "stopped", "error"}

\* C6: every message sent to the client has a status of the outbound
\* contract.  (Refuted: recognize_from_stream returns no_match_or_error.)
C6_StatusInContract ==
    \A i \in 1..Len(sent) : sent[i].status \in ContractStatuses

\* The place of a teardown step in the fixed order.
Rank(step) ==
    CASE step = "stop" -> 1
      [] step = "close" -> 2
      [] step = "kill" -> 3
      [] step = "release" -> 4
      [] step = "wsclose" -> 5

\* C7: websocket_continuous_recognition, the teardown steps occur in the
\* order stop engine, close push stream, kill transcoder, release registry
\* entry, close websocket: no later step ever precedes an earlier one.
C7_TeardownOrder ==
    mode = "continuous" =>
        \A i, j \in 1..Len(log) : i < j => Rank(log[i]) <= Rank(log[j])

C7_Witness ==
    /\ mode = "continuous" /\ pc = "done"
    /\ log = <<"stop", "close", "kill", "release", "wsclose">>

\* C8: no teardown step is skipped because an earlier one failed: when the
\* handler has ended, the kill step has run (the process is not left running
\* unkilled), the registry entry is removed and the websocket is closed.
\* (Refuted: stream.close() of the continuous handler is outside any try.)
C8_NoStepSkipped ==
    HandlerEnded =>
        /\ Count(log, "kill") = 1 \/ ffmpeg \in {"none", "reaped"}
        /\ Count(log, "release") = 1 /\ Self \notin registry
        /\ Count(log, "wsclose") = 1 /\ wsClosed

\* C9: the push stream is closed only after the stdout reader has seen the
\* end of the stream, and nothing is written to the stream after its close.
\* (Refuted: on the exception path the finally closes the stream while the
\* reader task is still running.)
C9_CloseAfterDrain ==
    /\ stream = "closed" => stdoutTask \in {"none", "done"}
    /\ ~lateWrite

\* C10: after a crash of the transcoder mid-stream, the engine stop, the
\* push-stream close and the process kill are each performed exactly once, in
\* that order, and the session reaches Closed.  (Refuted: the kill is left
\* out once the exit was seen, and a raising stream.close() ends the handler
\* before the registry entry is removed.)
C10_CrashTeardown ==
    (mode = "continuous" /\ crashed /\ HandlerEnded)
    => /\ SelectSeq(log, LAMBDA s : s \in {"stop", "close", "kill"})
              = <<"stop", "close", "kill">>
       /\ pc = "done" /\ Self \notin registry /\ wsClosed

\* C11: terminating the transcoder is idempotent.  When the handler reaches
\* the kill step of its finally clause and the exit of the process has been
\* observed already, the step issues no kill and raises nothing: the handler
\* goes on to the release of the registry entry.  On no path is kill issued
\* more than once.
C11_KillIdempotent ==
    [][/\ (pc = "f_kill" /\ ffmpeg = "reaped" /\ pc' # pc)
           => (log' = log /\ ffmpeg' = ffmpeg /\ pc' = "f_release")
       /\ Count(log', "kill") <= 1]_vars

\* The process ended by itself, its exit was awaited, and the finally clause
\* has passed the kill step without a kill.
C11_Witness ==
    /\ mode = "once" /\ pc = "f_release"
    /\ ffmpeg = "reaped" /\ stdoutTask = "done" /\ stderrTask = "done"
    /\ Count(log, "kill") = 0

\* recognize_continuous raised during setup: the stream was made, the
\* handler's `recognizer` was never assigned, and the handler is past the call.
SetupFailed ==
    /\ mode = "continuous" /\ stream # "none" /\ ~recognizer
    /\ pc \notin {"connect", "mkstream", "setup"}

\* The messages of `sent` with the given status.
WithStatus(status) == {i \in 1..Len(sent) : sent[i].status = status}

\* C12: when recognize_continuous raises during setup, the failure reaches
\* the client exactly once as a message with status error, and no other
\* message is sent for the session.  (Refuted: recognize_continuous sends the
\* error through the callback and re-raises, and the handler's except clause
\* sends it again.)
C12_SetupErrorOnce ==
    SetupFailed =>
        /\ Cardinality(WithStatus("error")) <= 1
        /\ WithStatus("error") = DOMAIN sent
        /\ HandlerEnded => Cardinality(WithStatus("error")) = 1

\* C13: websocket_single_recognition, no frame arrives before the read loop
\* gives up: stdin is closed with nothing written, recognize_from_stream is
\* still called, once and after the push stream was closed, on a stream that
\* got no audio, and the one result sent has status no_speech or no_match
\* (recognize_once returning a result).  (Refuted: the status sent is
\* no_match_or_error.)
C13_TimeoutEmpty ==
    (mode = "once" /\ ~gotFrame /\ clientConnected) =>
        /\ pc = "recognize" =>
              (stream = "closed" /\ ~stdinOpen /\ ~pcmWritten /\ result = NoResult)
        /\ (result # NoResult /\ result.status # "failed") =>
              result.status \in {"no_speech", "no_match"}
        /\ (pc = "done" /\ result # NoResult) => sent = <<result>>

\* C14: websocket_single_recognition reads inbound audio within a budget of
\* TimeoutDuration seconds from start_time: a receive is in progress only if
\* the elapsed time read before it was below the budget, and its wait is
\* capped by the remaining budget (and by ReceiveCap), however many frames
\* the client has sent.
C14_BudgetBound ==
    (mode = "once" /\ pc = "receive") =>
        /\ elapsed < Budget
        /\ waitCap > 0
        /\ waitCap <= Budget - elapsed
        /\ waitCap <= CapTicks

\* Frames have arrived, and the receive in progress is capped by what is left
\* of the budget, less than ReceiveCap.
C14_Witness ==
    /\ mode = "once" /\ pc = "receive" /\ gotFrame
    /\ elapsed = Budget - 1
    /\ waitCap = 1 /\ waitCap < CapTicks

\* The steps run by the engine's own thread: the callbacks connected to the
\* recognizer's recognized, canceled and session_stopped signals.
EngineThreadStep ==
    \/ FileRecognized \/ FileCanceled \/ FileSessionStopped
    \/ StreamRecognized \/ StreamCanceled \/ StreamSessionStopped

\* What the session task reads: the fragment list, the detected language, the
\* error message, the completion signal, and the messages sent on the socket.
SessionState == <<all_results, detected_language, error_message, done, sent>>

\* C15: an engine callback, running on the engine's thread, never writes the
\* session's state itself: it hands the event to the session's loop, and only
\* steps of the loop write that state.  (Refuted: the callbacks of
\* transcribe_file append to all_results, assign detected_language and
\* error_message and set the asyncio.Event `done` on the engine's thread.)
C15_NoEngineThreadWrite ==
    [][EngineThreadStep => UNCHANGED SessionState]_vars

\* C16: a failure of the transcoder is not a failure of the session.  The
\* exception of a write to the dead process never reaches the handler's
\* except clause and is never sent to the client as an error message; and in
\* one-shot mode, after the process died in the read loop and nothing else
\* failed, recognize_from_stream was called and its result is what the client
\* got.  (Refuted: the drain of a frame written to the dead process raises
\* into the outer except, which sends an error message and skips recognition.)
C16_TranscoderFailureSoft ==
    /\ exc # "BrokenPipe"
    /\ \A i \in WithStatus("error") : sent[i].error # "BrokenPipe"
    /\ (/\ mode = "once" /\ crashed /\ pc = "done" /\ clientConnected
        /\ \A i \in WithStatus("error") : sent[i].error = "BrokenPipe")
       => (result # NoResult /\ sent = <<result>>)

\* C17: the handler has returned with the websocket closed only after both
\* reader tasks have ended, the exit of the transcoder was observed, the
\* engine was stopped and the push stream was closed.  (Refuted: on the
\* exception path the finally clause neither awaits nor cancels the reader
\* tasks.)
C17_ClosedAfterTasks ==
    pc = "done" =>
        /\ stdoutTask # "running"
        /\ stderrTask # "running"
        /\ ffmpeg \in {"none", "reaped"}
        /\ eng # "running"
        /\ stream \in {"none", "closed"}

\* C18: once the read loop has ended and the handler is about to close the
\* transcoder's stdin, the handler eventually ends, even if the transcoder
\* never closes its output and never exits: it cannot wait forever on the
\* reader tasks or on the exit of the process.  (Refuted: the awaits of the
\* reader tasks and of the process have no timeout, and no kill is issued
\* while the handler waits.)
C18_EventuallyClosed == (pc = "closein") ~> HandlerEnded

\* The messages with status recognized of a sequence of messages, in order.
RecognizedIn(msgs) == SelectSeq(msgs, LAMBDA m : m.status = "recognized")

\* One recognized message for each fragment the engine delivered, in the
\* order of delivery, with the fragment's own language and text.
FragmentMsgs ==
    [i \in 1..Len(Fragments) |->
        Msg("recognized", Fragments[i].lang, Fragments[i].text, None)]

IsPrefix(s, t) == Len(s) <= Len(t) /\ SubSeq(t, 1, Len(s)) = s

\* The session is registered and its websocket can carry a message.
SessionActive == Self \in registry /\ clientConnected /\ ~wsClosed

InReadLoop == pc \in {"recv", "loop", "receive"}

\* C20: the normal path after the read loop.  The transcoder's stdin is
\* closed first; the stdout reader task is awaited next, the stderr reader
\* task after it has ended, and the exit of the process after both have
\* ended; once stdin was closed the handler is never in the read loop again,
\* and nothing is added to the stdin pipe.
C20_DrainOrder ==
    [][/\ pc' \in {"await_stdout", "await_stderr", "wait"} => ~stdinOpen'
       /\ pc' \in {"await_stderr", "wait"} => stdoutTask' = "done"
       /\ pc' = "wait" => stderrTask' = "done"
       /\ (pc = "closein" /\ pc' # pc) => pc' = "await_stdout"
       /\ (pc = "await_stdout" /\ pc' # pc) => pc' \in {"await_stderr", "except"}
       /\ (pc = "await_stderr" /\ pc' # pc) => pc' = "wait"
       /\ (ffmpeg' # "none" /\ ~stdinOpen') => ~InReadLoop'
       /\ inBuf' > inBuf => (stdinOpen /\ InReadLoop)]_vars

\* Audio went through, and the handler waits for the exit of the process with
\* stdin closed and both reader tasks ended.
C20_Witness ==
    /\ pc = "wait" /\ ~stdinOpen /\ pcmWritten
    /\ stdoutTask = "done" /\ stderrTask = "done"

\* The steps that call ConnectionManager.connect or disconnect.
RegistryStep ==
    \/ Connect \/ ContRelease \/ OnceRelease
    \/ OtherConnect \/ OtherDisconnect

\* C21: manager.active_connections changes only in a step that calls
\* ConnectionManager.connect or disconnect, by the insert or the removal of
\* that session's id alone: the other session's entry is as it was.
\* send_result changes nothing in it and sends nothing when the session's id
\* is absent.  When the handler has returned, its id is not in the registry.
C21_RegistryFrame ==
    [][/\ registry' # registry => RegistryStep
       /\ (Connect \/ ContRelease \/ OnceRelease)
             => (registry' \ {Self} = registry \ {Self})
       /\ (OtherConnect \/ OtherDisconnect)
             => (registry' \ {Other} = registry \ {Other})
       /\ (RunCallback /\ Self \notin registry) => sent' = sent
       /\ pc' = "done" => Self \notin registry']_vars

\* The handler has removed its own entry and returned, a queued callback has
\* found the id absent and sent nothing, and the other session's entry is
\* there.
C21_Witness ==
    /\ mode = "continuous" /\ pc = "done" /\ clientConnected
    /\ Self \notin registry /\ Other \in registry
    /\ HasEvent("SessionStopped") /\ pending = <<>>
    /\ WithStatus("stopped") = {}

\* The one-shot handler is past its read loop on the normal path.
PastReadLoop ==
    /\ mode = "once"
    /\ pc \in {"closein", "await_stdout", "await_stderr", "wait", "recognize", "send"}

\* C22: websocket_single_recognition, the read loop goes round only when the
\* receive returned a frame (which is written to the transcoder); a receive
\* wait that ends without a frame ends the loop, whatever is left of the
\* budget; and past the loop the handler never reads again and nothing more
\* is written to the transcoder.
C22_IdleGapEndsReading ==
    [][/\ (mode = "once" /\ pc = "receive" /\ pc' = "loop")
             => (gotFrame' /\ (ffmpeg = "running" => inBuf' = inBuf + 1))
       /\ (mode = "once" /\ pc = "receive" /\ pc' # pc /\ inBuf' = inBuf /\ ffmpeg = "running")
             => pc' \in {"closein", "except"}
       /\ PastReadLoop => (~InReadLoop' /\ inBuf' <= inBuf)]_vars

\* A frame was written, then one receive wait of ReceiveCap passed without a
\* frame, with the whole budget but the first reading left: the loop has
\* ended and recognition is about to run on what was written.
C22_Witness ==
    /\ PastReadLoop /\ pc = "recognize" /\ clientConnected
    /\ gotFrame /\ pcmWritten
    /\ elapsed = 0 /\ waitCap = CapTicks

\* transcribe_file: recognizer.start_continuous_recognition raised (the
\* engine never ran).
StartFailed == mode = "file" /\ pc # "t_start" /\ eng = "idle"

\* The status the delivered events call for, whatever the stop call did.
ExpectedStatus ==
    IF HasEvent("Canceled") \/ StartFailed THEN "failed"
    ELSE IF Len(Fragments) = 0 THEN "no_speech"
    ELSE "completed"

\* C23: transcribe_file attempts stop_continuous_recognition exactly once on
\* every exit path, before the result is built; the result is built only
\* after `done` was set or the start raised; and the returned status is the
\* one the events call for, also when the stop call itself raised.
C23_StopOnceBeforeResult ==
    mode = "file" =>
        /\ Count(log, "stop") <= 1
        /\ pc \in {"t_start", "t_wait", "t_stop"} =>
              (Count(log, "stop") = 0 /\ result = NoResult)
        /\ pc \in {"t_result", "done"} =>
              (Count(log, "stop") = 1 /\ (done \/ StartFailed))
        /\ pc = "done" => result.status = ExpectedStatus

\* Speech was recognized, the session stopped, the stop call raised, and the
\* result returned is completed.
C23_Witness ==
    /\ mode = "file" /\ pc = "done"
    /\ log = <<"stop", "stop_error">>
    /\ Len(Fragments) >= 1 /\ ~HasEvent("Canceled")
    /\ result.status = "completed"
====
